---- MODULE Spec2Model ----
(***************************************************************************)
(* Model of sec/table.py: the Cell / Row / Table data structure, the row   *)
(* reader (read_tablecontent, _htmlrow_to_rowobj, _get_span_options) and    *)
(* the grid linker (setup_linked_rows).                                     *)
(*                                                                          *)
(* Indices are 0-based as in the source: raw row i of the source is        *)
(* rows[i + 1] here, and multi_row_struct is a function on                  *)
(* (0 .. num_row-1) x (0 .. num_col-1).  A reference to a Cell object of    *)
(* the raw rows is the pair <<row index, cell index>> of that object.       *)
(*                                                                          *)
(* Spec and SpecWide are the Table under Read and LinkRows.  SpecText is    *)
(* one call of a string function of sec/financial_tables.py or sec/table.py *)
(* (_extract_raw_table, RawTableCleaner, _htmlrow_to_rowobj) on the         *)
(* characters of its argument.  SpecUpdate is the update loop of            *)
(* sec/update_operations.py over the data folder.                           *)
(***************************************************************************)
EXTENDS Integers, Sequences, FiniteSets, TLC

VARIABLES rows,          \* Table.rows: the raw rows, a sequence of sequences of cells
          rows_linked,   \* Table.rows_linked: [is_none, list]
          frame,         \* the locals of the latest setup_linked_rows call, at its exit
          last,          \* the latest call on the Table, the exception it raised, and
                         \* whether the call before it was setup_linked_rows too
          call,          \* a call of a string function: [fn, arg]
          ret,           \* what that call gave: [done, exc, value]
          disk,          \* the data folder: [last_updated, dates, info]
          run,           \* the locals of update_raw_quarterly_financial_statements
          retry          \* the locals of _open_url_with_retry and the driver's timeout

\* the Table
table_vars == <<rows, rows_linked, frame, last>>
\* the call of a string function
text_vars == <<call, ret>>

\* the update of the stored statements
update_vars == <<disk, run>>

vars == <<rows, rows_linked, frame, last, call, ret, disk, run, retry>>

\* ------------------------------------------------------------------ bounds

\* the largest number of tags, <tr> and <td> / <th> together, that the
\* contents read into one Table hold
MaxTags == 5

\* ------------------------------------------------------------------ Cell

\* Python's None in a field that otherwise holds a string
None == "None"
\* Python's None in Cell.linked_cell, which otherwise holds a reference <<r, c>>
NoLink == <<>>

NORMAL == "NORMAL"
HEADER == "HEADER"

Cell(row_span, col_span, cell_type) ==
    [type |-> cell_type, row_span |-> row_span, col_span |-> col_span,
     data |-> None, linked_cell |-> NoLink]

set_data(self, data) == [self EXCEPT !.data = data]

\* fault variant of link_to_cell: the reference is not kept
link_to_cell_no_link(self, cell, ref) ==
    [self EXCEPT !.type = cell.type,
                 !.row_span = cell.row_span,
                 !.col_span = cell.col_span,
                 !.data = None]

\* self.link_to_cell(cell), where ref is the reference to the object cell
link_to_cell(self, cell, ref) ==
    [self EXCEPT !.type = cell.type,
                 !.row_span = cell.row_span,
                 !.col_span = cell.col_span,
                 !.data = None,
                 !.linked_cell = ref]

is_linked_cell(self) == self.linked_cell # NoLink

\* ------------------------------------------------------------------ reader

\* The markup of one cell, <td ...>text</td> or <th ...>text</th>: the tag,
\* the rowspan and colspan options (<<>> when the option is absent, <<n>>
\* when it reads rowspan:n) and the text after the first ">".
Td(text, rs, cs) == [tag |-> "td", rowspan |-> rs, colspan |-> cs, text |-> text]
Th(text, rs, cs) == [tag |-> "th", rowspan |-> rs, colspan |-> cs, text |-> text]

\* the cell markups the rows of the model are written with
CellMarkups ==
    { Td("A", <<>>, <<>>),  Th("H", <<>>, <<>>),
      Td("B", <<2>>, <<>>), Td("C", <<>>, <<2>>),
      Th("D", <<2>>, <<2>>), Td("E", <<3>>, <<>>),
      Td("Z", <<0>>, <<>>) }

\* _get_span_options: 1 when the option is absent, the number it gives
\* otherwise; the assertions rowspan >= 1 and colspan >= 1
get_span_options(options) ==
    LET rowspan == IF options.rowspan = <<>> THEN 1 ELSE options.rowspan[1]
        colspan == IF options.colspan = <<>> THEN 1 ELSE options.colspan[1]
    IN  IF rowspan < 1 \/ colspan < 1
        THEN [exc |-> "AssertionError", rowspan |-> rowspan, colspan |-> colspan]
        ELSE [exc |-> "none", rowspan |-> rowspan, colspan |-> colspan]

RECURSIVE htmlrow_cells(_, _, _)
htmlrow_cells(html_row, k, row) ==
    IF k > Len(html_row) THEN [exc |-> "none", row |-> row]
    ELSE LET s == html_row[k]
             span == get_span_options(s)
             cell_type == IF s.tag = "th" THEN HEADER ELSE NORMAL
             cell == set_data(Cell(span.rowspan, span.colspan, cell_type), s.text)
         IN  IF span.exc # "none" THEN [exc |-> span.exc, row |-> row]
             ELSE htmlrow_cells(html_row, k + 1, Append(row, cell))

\* _htmlrow_to_rowobj: one owning Cell per td / th span, left to right
htmlrow_to_rowobj(html_row) == htmlrow_cells(html_row, 1, <<>>)

\* Table.appendRow
appendRow(rs, row) == Append(rs, row)

RECURSIVE read_rows(_, _, _)
read_rows(rs, rows_str, k) ==
    IF k > Len(rows_str) THEN [exc |-> "none", rows |-> rs]
    ELSE LET r == htmlrow_to_rowobj(rows_str[k])
         IN  IF r.exc # "none" THEN [exc |-> r.exc, rows |-> rs]
             ELSE read_rows(appendRow(rs, r.row), rows_str, k + 1)

\* Table.read_tablecontent: the rows are appended one by one, so an
\* exception in row k leaves the rows before k appended
read_tablecontent(rs, table_content) == read_rows(rs, table_content, 1)

\* ------------------------------------------------------------------ counts

get_num_of_rows(rs) == Len(rs)

RECURSIVE sum_col_span(_, _)
sum_col_span(row, n_cells) ==
    IF n_cells = 0 THEN 0
    ELSE sum_col_span(row, n_cells - 1) + row[n_cells].col_span

\* fault variant of get_num_of_columns: the width is taken from the last row
get_num_of_columns_last_row(rs) ==
    IF Len(rs) > 0 THEN sum_col_span(rs[Len(rs)], Len(rs[Len(rs)])) ELSE 0

\* Table.get_num_of_columns: the col_span sum of the first row, 0 without rows
get_num_of_columns(rs) ==
    IF Len(rs) > 0 THEN sum_col_span(rs[1], Len(rs[1])) ELSE 0

\* ------------------------------------------------------------------ linker

\* multi_row_struct = -np.ones((num_row, num_col)): -1 not covered, -2 covered
\* but not the first column of the covering cell, n >= 0 covered and the
\* first column of the cell link_indices[n]
NewStruct(num_row, num_col) ==
    [r \in 0 .. num_row - 1 |-> [c \in 0 .. num_col - 1 |-> -1]]

\* whether multi_row_struct[r, c] is an element; numpy raises IndexError otherwise
InRange(multi, r, c) == r \in DOMAIN multi /\ c \in DOMAIN multi[r]

\* the exception e is raised at source line l
Raise(f, e, l) == [f EXCEPT !.exc = e, !.line = l]

\* the locals of setup_linked_rows when it starts on the rows rs, and
\* self.rows_linked = []
NewFrame(num_row, num_col) ==
    [num_row |-> num_row, num_col |-> num_col,
     multi_row_struct |-> NewStruct(num_row, num_col),
     link_indices |-> <<>>,
     rows_linked |-> <<>>,
     i |-> 0, ind_col |-> 0, row_link_i |-> <<>>,
     \* history: per linked row and cell, the column it was appended at
     \* and whether it is a row's own cell or a placeholder
     row_cols |-> <<>>, row_kinds |-> <<>>, cols |-> <<>>, kinds |-> <<>>,
     \* history: the value of ind_col at the assertion ending each row
     end_cols |-> <<>>,
     \* self.rows, as the call leaves them
     rows |-> <<>>,
     exc |-> "none", line |-> 0]

\* the loops of lines 356-360 and 391-395: the first column from c on that no
\* cell of an earlier row covers
RECURSIVE skip_linked(_, _, _, _)
skip_linked(multi, i, c, num_col) ==
    IF c < num_col /\ multi[i][c] # -1
    THEN skip_linked(multi, i, c + 1, num_col)
    ELSE c

\* fault variant of is_multi_row: every cell is registered
is_multi_row_any(cell) == cell.row_span >= 1

\* line 366: the cells that are registered in link_indices
is_multi_row(cell) == cell.row_span > 1

\* fault variant of mark_below: one row more than row_span is marked
RECURSIVE mark_below_one_more(_, _, _, _)
mark_below_one_more(f, cell, p, q) ==
    IF p > cell.row_span THEN f
    ELSE IF q >= cell.col_span THEN mark_below_one_more(f, cell, p + 1, 0)
    ELSE LET r == f.i + p
             c == f.ind_col + q
         IN  IF ~InRange(f.multi_row_struct, r, c)
             THEN Raise(f, "IndexError", IF q = 0 THEN 372 ELSE 374)
             ELSE mark_below_one_more(
                    [f EXCEPT !.multi_row_struct[r][c] =
                                 IF q = 0 THEN Len(f.link_indices) - 1 ELSE -2],
                    cell, p, q + 1)

\* lines 368-374, from row offset p and column offset q on
RECURSIVE mark_below(_, _, _, _)
mark_below(f, cell, p, q) ==
    IF p >= cell.row_span THEN f
    ELSE IF q >= cell.col_span THEN mark_below(f, cell, p + 1, 0)
    ELSE LET r == f.i + p
             c == f.ind_col + q
         IN  IF ~InRange(f.multi_row_struct, r, c)
             THEN Raise(f, "IndexError", IF q = 0 THEN 372 ELSE 374)
             ELSE mark_below(
                    [f EXCEPT !.multi_row_struct[r][c] =
                                 IF q = 0 THEN Len(f.link_indices) - 1 ELSE -2],
                    cell, p, q + 1)

\* fault variant of append_own: a new Cell with the cell's type and spans is
\* appended in place of the cell
append_own_blank(f, cell) ==
    [f EXCEPT !.row_link_i = Append(@, Cell(cell.row_span, cell.col_span, cell.type)),
              !.row_cols = Append(@, f.ind_col),
              !.row_kinds = Append(@, "own")]

\* fault variant of append_own: the cell is put at the front of the row
append_own_front(f, cell) ==
    [f EXCEPT !.row_link_i = <<cell>> \o @,
              !.row_cols = <<f.ind_col>> \o @,
              !.row_kinds = <<"own">> \o @]

\* row_link_i.append_cell(row_i.get_cell(j))
append_own(f, cell) ==
    [f EXCEPT !.row_link_i = Append(@, cell),
              !.row_cols = Append(@, f.ind_col),
              !.row_kinds = Append(@, "own")]

\* fault variant of append_linked: the cell of the raw rows is linked to the
\* new Cell, and the new Cell is appended
append_linked_into_owner(rs, f, v, assert_line) ==
    IF ~(0 <= v /\ v < Len(f.link_indices))
    THEN Raise(f, "AssertionError", assert_line)
    ELSE LET ref == f.link_indices[v + 1]
             link_r == ref[1]
             link_c == ref[2]
         IN  IF ~(link_c < Len(rs[link_r + 1]))
             THEN Raise(f, "AssertionError", 143)
             ELSE LET cell == Cell(1, 1, NORMAL)
                  IN  [f EXCEPT !.rows[link_r + 1][link_c + 1] = link_to_cell(@, cell, ref),
                                !.row_link_i = Append(@, cell),
                                !.row_cols = Append(@, f.ind_col),
                                !.row_kinds = Append(@, "linked")]

\* lines 348-353 and 381-386: a new Cell linked to the cell link_indices[v]
append_linked(rs, f, v, assert_line) ==
    IF ~(0 <= v /\ v < Len(f.link_indices))
    THEN Raise(f, "AssertionError", assert_line)
    ELSE LET ref == f.link_indices[v + 1]
             link_r == ref[1]
             link_c == ref[2]
         IN  IF ~(link_c < Len(rs[link_r + 1]))
             THEN Raise(f, "AssertionError", 143)
             ELSE LET cell == link_to_cell(Cell(1, 1, NORMAL),
                                           rs[link_r + 1][link_c + 1], ref)
                  IN  [f EXCEPT !.row_link_i = Append(@, cell),
                                !.row_cols = Append(@, f.ind_col),
                                !.row_kinds = Append(@, "linked")]

\* lines 340-360: the start of row i
begin_row(rs, f) ==
    LET f0 == [f EXCEPT !.ind_col = 0, !.row_link_i = <<>>,
                        !.row_cols = <<>>, !.row_kinds = <<>>]
    IN  IF ~InRange(f0.multi_row_struct, f0.i, 0)
        THEN Raise(f0, "IndexError", 347)
        ELSE LET v == f0.multi_row_struct[f0.i][0]
                 f1 == IF v >= 0 THEN append_linked(rs, f0, v, 348) ELSE f0
             IN  IF f1.exc # "none" THEN f1
                 ELSE [f1 EXCEPT !.ind_col =
                          skip_linked(f1.multi_row_struct, f1.i, 0, f1.num_col)]

\* fault variant of link_cell: ind_col advances by one column per cell
link_cell_step_one(rs, f, j) ==
    LET cell == rs[f.i + 1][j + 1]
        f1 == IF is_multi_row(cell)
              THEN mark_below([f EXCEPT !.link_indices = Append(@, <<f.i, j>>)],
                              cell, 1, 0)
              ELSE f
    IN  IF f1.exc # "none" THEN f1
        ELSE IF ~InRange(f1.multi_row_struct, f1.i, f1.ind_col)
        THEN Raise(f1, "IndexError", 377)
        ELSE LET v == f1.multi_row_struct[f1.i][f1.ind_col]
                 f2 == IF v = -1 THEN append_own(f1, cell)
                                 ELSE append_linked(rs, f1, v, 381)
             IN  IF f2.exc # "none" THEN f2
                 ELSE [f2 EXCEPT !.ind_col =
                          skip_linked(f2.multi_row_struct, f2.i,
                                      f2.ind_col + 1, f2.num_col)]

\* lines 364-395: cell j of row i
link_cell(rs, f, j) ==
    LET cell == rs[f.i + 1][j + 1]
        f1 == IF is_multi_row(cell)
              THEN mark_below([f EXCEPT !.link_indices = Append(@, <<f.i, j>>)],
                              cell, 1, 0)
              ELSE f
    IN  IF f1.exc # "none" THEN f1
        ELSE IF ~InRange(f1.multi_row_struct, f1.i, f1.ind_col)
        THEN Raise(f1, "IndexError", 377)
        ELSE LET v == f1.multi_row_struct[f1.i][f1.ind_col]
                 f2 == IF v = -1 THEN append_own(f1, cell)
                                 ELSE append_linked(rs, f1, v, 381)
             IN  IF f2.exc # "none" THEN f2
                 ELSE [f2 EXCEPT !.ind_col =
                          skip_linked(f2.multi_row_struct, f2.i,
                                      f2.ind_col + cell.col_span, f2.num_col)]

RECURSIVE link_cells(_, _, _)
link_cells(rs, f, j) ==
    IF f.exc # "none" \/ j >= Len(rs[f.i + 1]) THEN f
    ELSE link_cells(rs, link_cell(rs, f, j), j + 1)

\* fault variant of end_row: the row is appended without the assertion
end_row_no_assert(f) ==
    [f EXCEPT !.end_cols = Append(@, f.ind_col),
              !.rows_linked = Append(@, f.row_link_i),
              !.cols = Append(@, f.row_cols),
              !.kinds = Append(@, f.row_kinds)]

\* lines 397-398: assert ind_col == num_col, then the row is appended
end_row(f) ==
    LET f1 == [f EXCEPT !.end_cols = Append(@, f.ind_col)]
    IN  IF f.ind_col # f.num_col
        THEN Raise(f1, "AssertionError", 397)
        ELSE [f1 EXCEPT !.rows_linked = Append(@, f.row_link_i),
                        !.cols = Append(@, f.row_cols),
                        !.kinds = Append(@, f.row_kinds)]

\* lines 340-398: row i
link_row(rs, f) ==
    LET f1 == begin_row(rs, f)
        f2 == IF f1.exc # "none" THEN f1 ELSE link_cells(rs, f1, 0)
    IN  IF f2.exc # "none" THEN f2 ELSE end_row(f2)

\* the loop of line 339; i is left at the row that raised, at num_row when
\* every row was linked
RECURSIVE link_rows(_, _)
link_rows(rs, f) ==
    IF f.i >= Len(rs) THEN f
    ELSE LET g == link_row(rs, f)
         IN  IF g.exc # "none" THEN g
             ELSE link_rows(rs, [g EXCEPT !.i = @ + 1])

\* fault variant of setup_linked_rows: self.rows_linked is not emptied first
setup_linked_rows_no_reset(rs) ==
    link_rows(rs, [NewFrame(Len(rs), get_num_of_columns(rs))
                      EXCEPT !.rows = rs, !.rows_linked = rows_linked.list])

\* Table.setup_linked_rows: the locals, and self.rows_linked, when it ends
setup_linked_rows(rs) ==
    link_rows(rs, [NewFrame(Len(rs), get_num_of_columns(rs)) EXCEPT !.rows = rs])

\* ------------------------------------------------------------------ inputs

\* the number of tags of the rows rs: one per row and one per cell
RECURSIVE num_tags(_)
num_tags(rs) == IF rs = <<>> THEN 0 ELSE 1 + Len(Head(rs)) + num_tags(Tail(rs))

\* the row markups of n cells
RowMarkups(n) == [1 .. n -> CellMarkups]

\* the table contents of at most b tags
RECURSIVE Contents(_)
Contents(b) ==
    IF b <= 0 THEN {<<>>}
    ELSE {<<>>} \cup
         UNION { { <<row>> \o rest : row \in RowMarkups(n),
                                     rest \in Contents(b - 1 - n) }
                 : n \in 0 .. b - 1 }

\* ------------------------------------------------------------------ data folder

\* symbols_df.index.tolist(), and the ETF column of symbols_df
symbols == <<"AAA", "BBB", "CCC">>
ETF == [s \in {"AAA", "BBB", "CCC"} |-> s = "BBB"]

\* a data folder without last_updated file, statement files and company infos
EmptyDisk ==
    [last_updated |-> None, dates |-> [s \in DOMAIN ETF |-> {}], info |-> {}]

\* no call of update_raw_quarterly_financial_statements is running; n counts
\* the calls made; updated lists the symbols the running call has given to
\* _update_raw_quarterly_financial_statements; symbol, docs, stored_dates,
\* writes and exc are those of the latest of these calls
NoRun ==
    [pc |-> "idle", n |-> 0, last_symbol |-> None, last_symbol_index |-> 0, i |-> -1,
     updated |-> <<>>, symbol |-> None, docs |-> <<>>, stored_dates |-> {},
     writes |-> <<>>, exc |-> "none"]

\* ------------------------------------------------------------------ page loads

\* no call of _open_url_with_retry has been made.  pc is "get" while the loop
\* of line 41 runs, "returned" after the break of line 52, "raised" after
\* PageLoadError; timeout0 is the timeout the call was given, gets counts the
\* calls of self.driver.get, page_load_timeout is what the driver was last set to
NoRetry ==
    [pc |-> "idle", timeout |-> 0, num_retry |-> 0, timeout_grow_factor |-> 1,
     n_tries |-> 0, timeout0 |-> 0, gets |-> 0, page_load_timeout |-> 0]

\* ------------------------------------------------------------------ actions

\* Table.__init__
InitTable ==
    /\ rows = <<>>
    /\ rows_linked = [is_none |-> TRUE, list |-> <<>>]
    /\ frame = NewFrame(0, 0)
    /\ last = [op |-> "init", exc |-> "none", again |-> FALSE]

\* no string function is called
NoCall == [fn |-> "none", arg |-> <<>>]
NoRet == [done |-> FALSE, exc |-> "none", value |-> <<>>]

Init ==
    /\ InitTable
    /\ call = NoCall
    /\ ret = NoRet
    /\ disk = EmptyDisk
    /\ run = NoRun
    /\ retry = NoRetry

\* table.read_tablecontent(table_content)
Read ==
    \E table_content \in Contents(MaxTags - num_tags(rows)) :
        LET r == read_tablecontent(rows, table_content)
        IN  /\ rows' = r.rows
            /\ last' = [op |-> "read_tablecontent", exc |-> r.exc, again |-> FALSE]
            /\ UNCHANGED <<rows_linked, frame, call, ret, disk, run, retry>>

\* table.setup_linked_rows()
LinkRows ==
    LET f == setup_linked_rows(rows)
    IN  /\ rows_linked' = [is_none |-> FALSE, list |-> f.rows_linked]
        /\ frame' = f
        /\ last' = [op |-> "setup_linked_rows", exc |-> f.exc,
                     again |-> last.op = "setup_linked_rows"]
        /\ rows' = f.rows
        /\ UNCHANGED <<call, ret, disk, run, retry>>

Next == Read \/ LinkRows

Spec == Init /\ [][Next]_vars

\* ------------------------------------------------------------------ wide rows

\* cell markups with a header cell that spans three columns
WideMarkups ==
    { Td("A", <<>>, <<>>), Th("T", <<>>, <<3>>),
      Td("B", <<2>>, <<>>), Td("C", <<>>, <<2>>) }

\* the table contents of at most b tags written with the cell markups M
RECURSIVE ContentsOver(_, _)
ContentsOver(M, b) ==
    IF b <= 0 THEN {<<>>}
    ELSE {<<>>} \cup
         UNION { { <<row>> \o rest : row \in [1 .. n -> M],
                                     rest \in ContentsOver(M, b - 1 - n) }
                 : n \in 0 .. b - 1 }

\* table.read_tablecontent(table_content), the content written with WideMarkups
ReadWide ==
    \E table_content \in ContentsOver(WideMarkups, MaxTags - num_tags(rows)) :
        LET r == read_tablecontent(rows, table_content)
        IN  /\ rows' = r.rows
            /\ last' = [op |-> "read_tablecontent", exc |-> r.exc, again |-> FALSE]
            /\ UNCHANGED <<rows_linked, frame, call, ret, disk, run, retry>>

NextWide == ReadWide \/ LinkRows

SpecWide == Init /\ [][NextWide]_vars

\* ------------------------------------------------------------------ strings

\* A Python str is the sequence of its characters; indices are 0-based as in
\* the source.

RECURSIVE Join(_)
Join(pieces) == IF pieces = <<>> THEN <<>> ELSE Head(pieces) \o Join(Tail(pieces))

\* whether sub occurs in s at index i
OccursAt(s, sub, i) ==
    /\ i >= 0 /\ i + Len(sub) <= Len(s)
    /\ \A k \in 1 .. Len(sub) : s[i + k] = sub[k]

\* str.find(sub, start): the lowest index >= start where sub occurs, -1 if none
RECURSIVE find_from(_, _, _)
find_from(s, sub, start) ==
    IF start + Len(sub) > Len(s) THEN -1
    ELSE IF OccursAt(s, sub, start) THEN start
    ELSE find_from(s, sub, start + 1)

\* str.find(sub)
find(s, sub) == find_from(s, sub, 0)

\* s[a:b] for a, b >= 0
slice(s, a, b) ==
    LET hi == IF b > Len(s) THEN Len(s) ELSE b
    IN  IF a >= hi THEN <<>> ELSE SubSeq(s, a + 1, hi)

\* the strings made of at most n of the pieces P
PieceStrings(P, n) == { Join(ps) : ps \in UNION { [1 .. k -> P] : k \in 0 .. n } }

\* ------------------------------------------------------------------ extract

\* str_start = "<table" and str_end = "/table>"
str_start == <<"<", "t", "a", "b", "l", "e">>
str_end == <<"/", "t", "a", "b", "l", "e", ">">>

\* SECTableReader._extract_raw_table
extract_raw_table(expr) ==
    LET ind_start == find(expr, str_start)
        ind_end == find(expr, str_end)
    IN  IF ind_start < 0 THEN [done |-> TRUE, exc |-> "AssertionError", value |-> <<>>]
        ELSE IF ind_end < 0 THEN [done |-> TRUE, exc |-> "AssertionError", value |-> <<>>]
        ELSE [done |-> TRUE, exc |-> "none",
              value |-> slice(expr, ind_start, ind_end + Len(str_end))]

\* the largest number of pieces a fragment is made of
MaxPieces == 4

\* the pieces the fragments given to _extract_raw_table are made of
FragmentPieces == { str_start, str_end, <<"<">>, <<">">>, <<"x">> }

ExtractCalls ==
    { [fn |-> "extract_raw_table", arg |-> s] : s \in PieceStrings(FragmentPieces, MaxPieces) }

\* self._extract_raw_table(expr)
Extract ==
    /\ call.fn = "extract_raw_table" /\ ~ret.done
    /\ ret' = extract_raw_table(call.arg)
    /\ UNCHANGED <<rows, rows_linked, frame, last, call, disk, run, retry>>

\* ------------------------------------------------------------------ cleaner

\* Markup as html.parser.HTMLParser reads it: a sequence of start tags, end
\* tags and text.  A start tag holds its attributes as they are written, each
\* a word of parts: <<name, "=", value>> for name="value", and one part after
\* the other for a word without "=" (<<"rowspan", ":", "2">> is rowspan:2).
StartTag(tag, words) == [kind |-> "start", tag |-> tag, words |-> words, text |-> <<>>]
EndTag(tag) == [kind |-> "end", tag |-> tag, words |-> <<>>, text |-> <<>>]
Text(text) == [kind |-> "data", tag |-> "", words |-> <<>>, text |-> text]

\* the attribute (name, value) HTMLParser passes for a written word: a word
\* without "=" is a name without value (None)
lex_attr(word) ==
    IF Len(word) = 3 /\ word[2] = "="
    THEN [name |-> <<word[1]>>, value |-> word[3]]
    ELSE [name |-> word, value |-> None]

RECURSIVE dict_set(_, _)
dict_set(dic, pair) ==
    IF dic = <<>> THEN <<pair>>
    ELSE IF Head(dic).name = pair.name THEN <<pair>> \o Tail(dic)
    ELSE <<Head(dic)>> \o dict_set(Tail(dic), pair)

\* RawTableCleaner._get_attribute_dic: a dict keeps the place of a key's first
\* entry and the value of its last
RECURSIVE get_attribute_dic(_, _)
get_attribute_dic(attrs, attr_dic) ==
    IF attrs = <<>> THEN attr_dic
    ELSE get_attribute_dic(Tail(attrs), dict_set(attr_dic, Head(attrs)))

KeptTags == {"td", "tr", "th"}
KeptAttributes == { <<"rowspan">>, <<"colspan">> }

\* ' {}:{} '.format(att, attr_dic[att]), the word between the blanks
RECURSIVE span_words(_)
span_words(attr_dic) ==
    IF attr_dic = <<>> THEN <<>>
    ELSE (IF Head(attr_dic).name \in KeptAttributes
          THEN << Head(attr_dic).name \o <<":", Head(attr_dic).value>> >>
          ELSE <<>>) \o span_words(Tail(attr_dic))

\* RawTableCleaner.handle_starttag
handle_starttag(table, tag, words) ==
    IF tag \in KeptTags
    THEN LET attrs == [k \in 1 .. Len(words) |-> lex_attr(words[k])]
             attr_dic == get_attribute_dic(attrs, <<>>)
         IN  Append(table, StartTag(tag, span_words(attr_dic)))
    ELSE table

\* RawTableCleaner.handle_endtag
handle_endtag(table, tag) ==
    IF tag \in KeptTags THEN Append(table, EndTag(tag)) ELSE table

Whitespace == {" ", "\n", "\t"}

\* self.table += data: text written after text is one text
add_text(table, data) ==
    IF table # <<>> /\ table[Len(table)].kind = "data"
    THEN [table EXCEPT ![Len(table)].text = @ \o data]
    ELSE Append(table, Text(data))

\* RawTableCleaner.handle_data: len(data.strip()) > 0
handle_data(table, data) ==
    IF \E k \in 1 .. Len(data) : data[k] \notin Whitespace
    THEN add_text(table, data)
    ELSE table

\* the text between two tags is one text
RECURSIVE merge_text(_, _)
merge_text(markup, acc) ==
    IF markup = <<>> THEN acc
    ELSE merge_text(Tail(markup),
                    IF Head(markup).kind = "data" THEN add_text(acc, Head(markup).text)
                    ELSE Append(acc, Head(markup)))

RECURSIVE feed_from(_, _)
feed_from(markup, table) ==
    IF markup = <<>> THEN table
    ELSE LET x == Head(markup)
         IN  feed_from(Tail(markup),
                 CASE x.kind = "start" -> handle_starttag(table, x.tag, x.words)
                   [] x.kind = "end" -> handle_endtag(table, x.tag)
                   [] OTHER -> handle_data(table, x.text))

\* parser.clear_table(); parser.feed(table); parser.table
clean_table(markup) == feed_from(merge_text(markup, <<>>), <<>>)

\* the largest number of tags and texts of a markup given to the cleaner
MaxLexemes == 3

Lexemes ==
    { StartTag("td", <<>>),
      StartTag("td", << <<"rowspan", "=", "2">> >>),
      StartTag("th", << <<"colspan", "=", "2">>, <<"class", "=", "x">> >>),
      StartTag("span", <<>>),
      EndTag("td"), EndTag("span"),
      Text(<<"A">>), Text(<<" ">>) }

CleanCalls ==
    { [fn |-> "clean_table", arg |-> m] :
         m \in UNION { [1 .. k -> Lexemes] : k \in 0 .. MaxLexemes } }

\* RawTableCleaner on a table markup, as _remove_unnecessary_tags drives it
Clean ==
    /\ call.fn = "clean_table" /\ ~ret.done
    /\ ret' = [done |-> TRUE, exc |-> "none", value |-> clean_table(call.arg)]
    /\ UNCHANGED <<rows, rows_linked, frame, last, call, disk, run, retry>>

\* ------------------------------------------------------------------ row strings

\* _htmlrow_to_rowobj and _get_span_options on the characters of a row

lt_td == <<"<", "t", "d">>
lt_th == <<"<", "t", "h">>
end_td == <<"<", "/", "t", "d", ">">>
end_th == <<"<", "/", "t", "h", ">">>
rowspan_colon == <<"r", "o", "w", "s", "p", "a", "n", ":">>
colspan_colon == <<"c", "o", "l", "s", "p", "a", "n", ":">>

\* what \s matches, among the characters of the model
ReWhitespace == {" ", "\n", "\t"}
Digits == {"0", "1", "2", "3", "4", "5", "6", "7", "8", "9"}
DigitValue(c) ==
    CASE c = "0" -> 0 [] c = "1" -> 1 [] c = "2" -> 2 [] c = "3" -> 3 [] c = "4" -> 4
      [] c = "5" -> 5 [] c = "6" -> 6 [] c = "7" -> 7 [] c = "8" -> 8 [] OTHER -> 9

\* int(digits)
RECURSIVE int(_)
int(digits) ==
    IF digits = <<>> THEN 0
    ELSE 10 * int(SubSeq(digits, 1, Len(digits) - 1)) + DigitValue(digits[Len(digits)])

\* fault variant of strip: only the leading whitespace is removed
RECURSIVE lstrip(_)
lstrip(s) ==
    IF s = <<>> THEN s
    ELSE IF Head(s) \in ReWhitespace THEN lstrip(Tail(s))
    ELSE s

\* s.strip()
RECURSIVE strip(_)
strip(s) ==
    IF s = <<>> THEN s
    ELSE IF Head(s) \in ReWhitespace THEN strip(Tail(s))
    ELSE IF s[Len(s)] \in ReWhitespace THEN strip(SubSeq(s, 1, Len(s) - 1))
    ELSE s

\* the index >= q where ".*?(?=close)" begun at p ends: the lowest index where
\* close occurs, with no newline before it; -1 when there is none
RECURSIVE lazy_end(_, _, _)
lazy_end(s, close, q) ==
    IF q + Len(close) > Len(s) THEN -1
    ELSE IF OccursAt(s, close, q) THEN q
    ELSE IF s[q + 1] = "\n" THEN -1
    ELSE lazy_end(s, close, q + 1)

\* re.findall("((?<=<td).*?(?=</td>))|((?<=<th).*?(?=</th>))", html_row) from
\* index pos on: the matches in order, each with the alternative that matched.
\* A match that follows an empty match at the same index must not be empty.
RECURSIVE findall_cells(_, _, _, _)
findall_cells(s, pos, must_advance, acc) ==
    IF pos > Len(s) THEN acc
    ELSE LET tag == IF OccursAt(s, lt_td, pos - 3) THEN "td"
                    ELSE IF OccursAt(s, lt_th, pos - 3) THEN "th" ELSE ""
             close == IF tag = "td" THEN end_td ELSE end_th
             q == IF tag = "" THEN -1
                  ELSE IF ~must_advance THEN lazy_end(s, close, pos)
                  ELSE IF pos < Len(s) /\ s[pos + 1] # "\n" THEN lazy_end(s, close, pos + 1)
                  ELSE -1
         IN  IF q < 0 THEN findall_cells(s, pos + 1, FALSE, acc)
             ELSE findall_cells(s, q, q = pos,
                                Append(acc, [tag |-> tag, text |-> slice(s, pos, q)]))

\* the number of characters of C from index i on
RECURSIVE run_length(_, _, _)
run_length(s, C, i) ==
    IF i < Len(s) /\ s[i + 1] \in C THEN 1 + run_length(s, C, i + 1) ELSE 0

\* "\s*[0-9]+(?=[^%d])" at index p: the text it matches, <<>> when it does not
\* match.  The digits are followed by a character that is neither % nor d;
\* the last digit is given back when they are not.
match_span_at(s, p) ==
    LET w == p + run_length(s, ReWhitespace, p)
        n == run_length(s, Digits, w)
        next_ok == w + n < Len(s) /\ s[w + n + 1] \notin {"%", "d"}
    IN  IF n >= 1 /\ next_ok THEN slice(s, p, w + n)
        ELSE IF n >= 2 THEN slice(s, p, w + n - 1)
        ELSE <<>>

\* re.findall("(?<=rowspan:)\s*[0-9]+(?=[^%d])", options_str) from index pos on
RECURSIVE findall_span(_, _, _)
findall_span(s, name, pos) ==
    IF pos > Len(s) THEN <<>>
    ELSE LET m == IF OccursAt(s, name, pos - Len(name)) THEN match_span_at(s, pos) ELSE <<>>
         IN  IF m = <<>> THEN findall_span(s, name, pos + 1)
             ELSE <<m>> \o findall_span(s, name, pos + Len(m))

\* lines 267-271 and 274-278 of _get_span_options, for one of the two names
span_option(options_str, name) ==
    IF find(options_str, name) >= 0
    THEN LET found == findall_span(options_str, name, 0)
         IN  IF Len(found) # 1 THEN [exc |-> "AssertionError", span |-> 0]
             ELSE IF int(strip(found[1])) < 1
                  THEN [exc |-> "AssertionError", span |-> int(strip(found[1]))]
                  ELSE [exc |-> "none", span |-> int(strip(found[1]))]
    ELSE [exc |-> "none", span |-> 1]

\* Table._get_span_options on the characters between "<td" and "</td>"
get_span_options_str(options_str) ==
    LET r == span_option(options_str, rowspan_colon)
        c == span_option(options_str, colspan_colon)
    IN  IF r.exc # "none" THEN [exc |-> r.exc, rowspan |-> r.span, colspan |-> 1]
        ELSE [exc |-> c.exc, rowspan |-> r.span, colspan |-> c.span]

\* the loop of lines 225-256
RECURSIVE rowobj_cells(_, _, _)
rowobj_cells(td_th_tag_pairs, k, row) ==
    IF k > Len(td_th_tag_pairs) THEN [done |-> TRUE, exc |-> "none", value |-> row]
    ELSE LET s == td_th_tag_pairs[k].text
             span == get_span_options_str(s)
             cell_type == IF td_th_tag_pairs[k].tag = "th" THEN HEADER ELSE NORMAL
             cell_data == strip(slice(s, find(s, <<">">>) + 1, Len(s)))
             cell == set_data(Cell(span.rowspan, span.colspan, cell_type), cell_data)
         IN  IF s = <<>> \/ span.exc # "none" \/ find(s, <<">">>) < 0
             THEN [done |-> TRUE, exc |-> "AssertionError", value |-> row]
             ELSE rowobj_cells(td_th_tag_pairs, k + 1, Append(row, cell))

\* Table._htmlrow_to_rowobj on the characters of the row
htmlrow_to_rowobj_str(html_row) ==
    rowobj_cells(findall_cells(html_row, 0, FALSE, <<>>), 1, <<>>)

\* The source of one cell of a row: its tag, the span attribute it is written
\* with (form "none" when it has none, "canonical" for the cleaner's
\* ' rowspan:2 ', "raw" for rowspan="2"), its text, and whether it is closed.
CellSource(tag, form, name, value, text, closed) ==
    [tag |-> tag, form |-> form, name |-> name, value |-> value, text |-> text,
     closed |-> closed]

attribute_string(c) ==
    LET name == IF c.name = "rowspan" THEN <<"r", "o", "w", "s", "p", "a", "n">> ELSE <<"c", "o", "l", "s", "p", "a", "n">>
    IN  CASE c.form = "canonical" -> <<" ">> \o name \o <<":">> \o c.value \o <<" ">>
          [] c.form = "raw" -> <<" ">> \o name \o <<"=", "\"">> \o c.value \o <<"\"">>
          [] OTHER -> <<>>

cell_string(c) ==
    (IF c.tag = "td" THEN lt_td ELSE lt_th) \o attribute_string(c) \o <<">">> \o c.text
        \o (IF ~c.closed THEN <<>> ELSE IF c.tag = "td" THEN end_td ELSE end_th)

\* "<tr>" cells "</tr>"
row_string(cells) ==
    <<"<", "t", "r", ">">> \o Join([k \in 1 .. Len(cells) |-> cell_string(cells[k])])
        \o <<"<", "/", "t", "r", ">">>

\* the cells the rows given to _htmlrow_to_rowobj are written with
CellSources ==
    { CellSource("td", "none", "", <<>>, <<"A">>, TRUE),
      CellSource("th", "none", "", <<>>, <<"H">>, TRUE),
      CellSource("td", "canonical", "rowspan", <<"2">>, <<"A">>, TRUE),
      CellSource("th", "canonical", "colspan", <<"2">>, <<"H">>, TRUE),
      CellSource("td", "raw", "rowspan", <<"2">>, <<"A">>, TRUE),
      CellSource("td", "canonical", "rowspan", <<"0">>, <<"A">>, TRUE),
      CellSource("td", "canonical", "rowspan", <<"x">>, <<"A">>, TRUE),
      CellSource("td", "raw", "colspan", <<"0">>, <<"A">>, TRUE),
      CellSource("td", "canonical", "colspan", <<"2", "x">>, <<"A">>, TRUE),
      CellSource("td", "none", "", <<>>, rowspan_colon \o <<"2", " ", "A">>, TRUE),
      CellSource("td", "none", "", <<>>, <<" ", "A", " ">>, TRUE),
      CellSource("td", "none", "", <<>>, <<"A">>, FALSE) }

\* the largest number of cells a row given to _htmlrow_to_rowobj is written with
MaxRowCells == 2

RowSources == UNION { [1 .. k -> CellSources] : k \in 0 .. MaxRowCells }

RowCalls == { [fn |-> "htmlrow_to_rowobj", arg |-> row_string(cells)] : cells \in RowSources }

\* self._htmlrow_to_rowobj(html_row)
ParseRow ==
    /\ call.fn = "htmlrow_to_rowobj" /\ ~ret.done
    /\ ret' = htmlrow_to_rowobj_str(call.arg)
    /\ UNCHANGED <<rows, rows_linked, frame, last, call, disk, run, retry>>

\* ------------------------------------------------------------------ table strings

lt_tr == <<"<", "t", "r">>
end_tr == <<"<", "/", "t", "r", ">">>

\* re.findall("<tr.*?</tr>", table_content) from index pos on
RECURSIVE findall_rows(_, _)
findall_rows(s, pos) ==
    IF pos + Len(lt_tr) > Len(s) THEN <<>>
    ELSE LET q == IF OccursAt(s, lt_tr, pos) THEN lazy_end(s, end_tr, pos + Len(lt_tr)) ELSE -1
         IN  IF q < 0 THEN findall_rows(s, pos + 1)
             ELSE <<slice(s, pos, q + Len(end_tr))>> \o findall_rows(s, q + Len(end_tr))

\* the loop of lines 293-294
RECURSIVE read_row_strings(_, _, _)
read_row_strings(rs, rows_str, k) ==
    IF k > Len(rows_str) THEN [done |-> TRUE, exc |-> "none", value |-> rs]
    ELSE LET r == htmlrow_to_rowobj_str(rows_str[k])
         IN  IF r.exc # "none" THEN [done |-> TRUE, exc |-> r.exc, value |-> rs]
             ELSE read_row_strings(appendRow(rs, r.value), rows_str, k + 1)

\* Table.read_tablecontent on the characters of the table content; value is
\* self.rows when the call ends
read_tablecontent_str(rs, table_content) ==
    read_row_strings(rs, findall_rows(table_content, 0), 1)

\* the rows the table contents given to read_tablecontent are written with: an
\* empty row, and rows of one cell, whose text may hold a line break, as the
\* text RawTableCleaner.handle_data keeps
TableRowSources ==
    { <<>>,
      <<CellSource("td", "none", "", <<>>, <<"A">>, TRUE)>>,
      <<CellSource("th", "none", "", <<>>, <<"H">>, TRUE)>>,
      <<CellSource("td", "none", "", <<>>, <<"A", "\n", "B">>, TRUE)>> }

\* the largest number of rows of a table content given to read_tablecontent
MaxTableRows == 3

TableSources == UNION { [1 .. k -> TableRowSources] : k \in 0 .. MaxTableRows }

table_string(table) == Join([k \in 1 .. Len(table) |-> row_string(table[k])])

ReadCalls ==
    { [fn |-> "read_tablecontent", arg |-> table_string(table)] : table \in TableSources }

\* Table().read_tablecontent(table_content)
ReadText ==
    /\ call.fn = "read_tablecontent" /\ ~ret.done
    /\ ret' = read_tablecontent_str(<<>>, call.arg)
    /\ UNCHANGED <<rows, rows_linked, frame, last, call, disk, run, retry>>

\* ------------------------------------------------------------------ string calls

TextCalls == ExtractCalls \cup CleanCalls \cup RowCalls \cup ReadCalls

InitText ==
    /\ InitTable
    /\ call \in TextCalls
    /\ ret = NoRet
    /\ disk = EmptyDisk
    /\ run = NoRun
    /\ retry = NoRetry

NextText == Extract \/ Clean \/ ParseRow \/ ReadText

SpecText == InitText /\ [][NextText]_vars

\* ------------------------------------------------------------------ update

\* the date the update goes back to; dates are day numbers
last_date == 1

\* one 10-Q document of the documents list of a company
Doc(date, acc_num, is_interactive) ==
    [date |-> date, acc_num |-> acc_num, is_interactive |-> is_interactive]

\* the documents the lists of the model are made of: two interactive
\* documents filed on the same day, one filed before last_date, one that is
\* not interactive
Docs ==
    { Doc(0, "a0", TRUE), Doc(1, "a1", TRUE), Doc(1, "a2", TRUE), Doc(2, "a3", FALSE) }

\* the largest number of documents of one company's list
MaxDocs == 2
\* the largest number of calls of update_raw_quarterly_financial_statements
MaxRuns == 2

\* the documents lists: no document is listed twice
DocLists ==
    { l \in UNION { [1 .. k -> Docs] : k \in 0 .. MaxDocs } :
        \A j, k \in 1 .. Len(l) : j # k => l[j] # l[k] }

\* lines 47-65 of _update_raw_quarterly_financial_statements from document k
\* on: the statements written so far, as [date, acc_num], and the exception.
\* fail_at is the download (1 for the first) that raises PageLoadError, 0 when
\* none does.  stored_dates is what line 45 read before the loop.
RECURSIVE update_docs(_, _, _, _, _, _)
update_docs(company_docs, k, stored_dates, date, fail_at, writes) ==
    IF k > Len(company_docs) THEN [exc |-> "none", writes |-> writes]
    ELSE LET doc_info == company_docs[k]
             file_date == doc_info.date
         IN  IF ~doc_info.is_interactive
                 THEN update_docs(company_docs, k + 1, stored_dates, date, fail_at, writes)
             ELSE IF file_date \in stored_dates
                 THEN update_docs(company_docs, k + 1, stored_dates, date, fail_at, writes)
             ELSE IF file_date < date
                 THEN update_docs(company_docs, k + 1, stored_dates, date, fail_at, writes)
             ELSE IF fail_at = Len(writes) + 1
                 THEN [exc |-> "PageLoadError", writes |-> writes]
             ELSE update_docs(company_docs, k + 1, stored_dates, date, fail_at,
                              Append(writes, [date |-> file_date, acc_num |-> doc_info.acc_num]))

\* symbols.index(symbol)
index_of(symbol) == CHOOSE k \in 0 .. Len(symbols) - 1 :
    /\ symbols[k + 1] = symbol
    /\ \A j \in 0 .. k - 1 : symbols[j + 1] # symbol

\* lines 96-108: the call begins
StartUpdate ==
    /\ run.pc = "idle" /\ run.n < MaxRuns
    /\ LET last_symbol == disk.last_updated
       IN  run' = [NoRun EXCEPT !.pc = "loop", !.n = run.n + 1,
                                !.last_symbol = last_symbol,
                                !.last_symbol_index =
                                    IF last_symbol # None THEN index_of(last_symbol) ELSE 0]
    /\ UNCHANGED <<rows, rows_linked, frame, last, call, ret, disk, retry>>

\* where the loop of line 109 is after the pass for row i
pc_after(i) == IF i + 1 >= Len(symbols) THEN "idle" ELSE "loop"

\* lines 109-115 and 117-118: a pass of the loop for a symbol before the last
\* updated one, or for an ETF
SkipSymbol ==
    /\ run.pc = "loop"
    /\ LET i == run.i + 1
           index == symbols[i + 1]
       IN  /\ i < run.last_symbol_index \/ ETF[index]
           /\ run' = [run EXCEPT !.i = i, !.pc = pc_after(i)]
    /\ UNCHANGED <<rows, rows_linked, frame, last, call, ret, disk, retry>>

\* fault variant of FailSymbol: the symbol is noted as the last updated one
FailSymbolNoted ==
    /\ run.pc = "loop"
    /\ LET i == run.i + 1
           index == symbols[i + 1]
       IN  /\ ~(i < run.last_symbol_index) /\ ~ETF[index]
           /\ \E exc \in {"SymbolNotFoundError", "PageLoadError"} :
                 run' = [run EXCEPT !.i = i, !.pc = pc_after(i),
                                    !.updated = Append(@, index),
                                    !.symbol = index, !.docs = <<>>,
                                    !.stored_dates = {},
                                    !.writes = <<>>, !.exc = exc]
           /\ disk' = [disk EXCEPT !.last_updated = index]
    /\ UNCHANGED <<rows, rows_linked, frame, last, call, ret, retry>>

\* lines 109-130: a pass of the loop that calls
\* _update_raw_quarterly_financial_statements(index, last_date), where
\* find_quarterly_reports_until_date raises
FailSymbol ==
    /\ run.pc = "loop"
    /\ LET i == run.i + 1
           index == symbols[i + 1]
       IN  /\ ~(i < run.last_symbol_index) /\ ~ETF[index]
           /\ \E exc \in {"SymbolNotFoundError", "PageLoadError"} :
                 run' = [run EXCEPT !.i = i, !.pc = pc_after(i),
                                    !.updated = Append(@, index),
                                    !.symbol = index, !.docs = <<>>,
                                    !.stored_dates = {},
                                    !.writes = <<>>, !.exc = exc]
    /\ UNCHANGED <<rows, rows_linked, frame, last, call, ret, disk, retry>>

\* lines 109-130: a pass of the loop that calls
\* _update_raw_quarterly_financial_statements(index, last_date), where the
\* documents list is found
UpdateSymbol ==
    /\ run.pc = "loop"
    /\ LET i == run.i + 1
           index == symbols[i + 1]
           n_symb == Len(symbols)
       IN  /\ ~(i < run.last_symbol_index) /\ ~ETF[index]
           /\ \E company_docs \in DocLists, fail_at \in 0 .. MaxDocs :
                 LET stored_dates == disk.dates[index]
                     u == update_docs(company_docs, 1, stored_dates, last_date, fail_at, <<>>)
                     noted == IF u.exc # "none" THEN disk.last_updated
                              ELSE IF i = n_symb THEN symbols[1]
                              ELSE index
                 IN  /\ disk' = [last_updated |-> noted,
                                 dates |-> [disk.dates EXCEPT ![index] =
                                               @ \cup { u.writes[j].date : j \in 1 .. Len(u.writes) }],
                                 info |-> disk.info \cup {index}]
                     /\ run' = [run EXCEPT !.i = i, !.pc = pc_after(i),
                                           !.updated = Append(@, index),
                                           !.symbol = index, !.docs = company_docs,
                                           !.stored_dates = stored_dates,
                                           !.writes = u.writes, !.exc = u.exc]
    /\ UNCHANGED <<rows, rows_linked, frame, last, call, ret, retry>>

NextUpdate == StartUpdate \/ SkipSymbol \/ FailSymbol \/ UpdateSymbol

SpecUpdate == Init /\ [][NextUpdate]_vars

\* ------------------------------------------------------------------ retry

\* the largest num_retry a call of _open_url_with_retry is given
MaxRetry == 3

\* the timeouts and growth factors the calls are given; 10 and 2 are the defaults
Timeouts == {5, 10}
GrowFactors == {1, 2, 3}

\* lines 38-39: the call begins
OpenUrl ==
    /\ retry.pc \in {"idle", "returned", "raised"}
    /\ \E timeout \in Timeouts, num_retry \in 0 .. MaxRetry, timeout_grow_factor \in GrowFactors :
          retry' = [pc |-> "get", timeout |-> timeout, num_retry |-> num_retry,
                    timeout_grow_factor |-> timeout_grow_factor, n_tries |-> 0,
                    timeout0 |-> timeout, gets |-> 0, page_load_timeout |-> timeout]
    /\ UNCHANGED <<rows, rows_linked, frame, last, call, ret, disk, run>>

\* fault variant of page_timed_out: PageLoadError after num_retry timed out loads
page_timed_out_early(r) ==
    LET n_tries == r.n_tries + 1
        timeout == r.timeout * r.timeout_grow_factor
    IN  [r EXCEPT !.gets = @ + 1, !.n_tries = n_tries, !.timeout = timeout,
                  !.page_load_timeout = timeout,
                  !.pc = IF n_tries >= r.num_retry THEN "raised" ELSE "get"]

\* lines 43-50: self.driver.get(url) raises TimeoutException
page_timed_out(r) ==
    LET n_tries == r.n_tries + 1
        timeout == r.timeout * r.timeout_grow_factor
    IN  [r EXCEPT !.gets = @ + 1, !.n_tries = n_tries, !.timeout = timeout,
                  !.page_load_timeout = timeout,
                  !.pc = IF n_tries > r.num_retry THEN "raised" ELSE "get"]

\* lines 42-50: a pass of the loop where the page load times out
GetTimeout ==
    /\ retry.pc = "get"
    /\ retry' = page_timed_out(retry)
    /\ UNCHANGED <<rows, rows_linked, frame, last, call, ret, disk, run>>

\* lines 42-43 and 51-52: a pass of the loop where the page is loaded
GetOk ==
    /\ retry.pc = "get"
    /\ retry' = [retry EXCEPT !.gets = @ + 1, !.pc = "returned"]
    /\ UNCHANGED <<rows, rows_linked, frame, last, call, ret, disk, run>>

NextRetry == OpenUrl \/ GetTimeout \/ GetOk

\* self.driver.get(url) returns or raises TimeoutException when the page load
\* timeout is over: a pass of the loop ends
SpecRetry == Init /\ [][NextRetry]_vars /\ WF_vars(GetTimeout \/ GetOk)

\* ------------------------------------------------------------------ claims

\* the linked rows, [] while rows_linked is None
linked == rows_linked.list

\* the latest call was setup_linked_rows, so rows are the rows it linked
JustLinked == last.op = "setup_linked_rows"
LinkedOk == JustLinked /\ last.exc = "none"

Owning(cell) == cell.data # None /\ cell.linked_cell = NoLink
Linked(cell) == cell.data = None /\ cell.linked_cell # NoLink

\* the cell of the raw rows that ref refers to
CellAt(ref) == rows[ref[1] + 1][ref[2] + 1]

\* the grid columns a row's own cells ask for, counted one by one
ColSpanSum(row) ==
    Cardinality(UNION { {k} \X (1 .. row[k].col_span) : k \in 1 .. Len(row) })

\* the placeholders of linked row i
Placeholders(i) == { k \in 1 .. Len(linked[i]) : is_linked_cell(linked[i][k]) }

\* the rows of [A, B(rowspan 2)], [A] and of [A, B(rowspan 2)], [C(colspan 2)]
ScenarioA == << <<set_data(Cell(1, 1, NORMAL), "A"), set_data(Cell(2, 1, NORMAL), "B")>>,
               <<set_data(Cell(1, 1, NORMAL), "A")>> >>

ScenarioOverlap ==
    << <<set_data(Cell(1, 1, NORMAL), "A"), set_data(Cell(2, 1, NORMAL), "B")>>,
       <<set_data(Cell(1, 2, NORMAL), "C")>> >>

\* C1: after setup_linked_rows succeeds, every linked row has exactly
\* get_num_of_columns() cells.
C1_LinkedRowsAreDense ==
    LinkedOk => \A i \in 1 .. Len(linked) : Len(linked[i]) = get_num_of_columns(rows)

\* C2: in every linked row each column whose state is LinkedTo (>= 0 in
\* multi_row_struct) has produced one placeholder, whatever its position; and
\* the rows [A, B(rowspan 2)], [C] link to [A, B], [C, link to row 0 cell 1].
C2_EveryLinkedToColumnEmits ==
    JustLinked =>
      /\ \A i \in 1 .. Len(linked) :
            Cardinality(Placeholders(i)) =
            Cardinality({ c \in 0 .. frame.num_col - 1 :
                             frame.multi_row_struct[i - 1][c] >= 0 })
      /\ rows = ScenarioA =>
            /\ get_num_of_columns(rows) = 2
            /\ linked = << ScenarioA[1],
                           << ScenarioA[2][1],
                              link_to_cell(Cell(1, 1, NORMAL), ScenarioA[1][2], <<0, 1>>) >> >>

\* the own cells, as <<linked row, position>>, whose row_span x col_span
\* rectangle covers the grid position (r, c)
Owners(r, c) ==
    { ik \in UNION { {i} \X (1 .. Len(linked[i])) : i \in 1 .. Len(linked) } :
        LET i == ik[1]
            k == ik[2]
            cell == linked[i][k]
            col == frame.cols[i][k]
        IN  /\ frame.kinds[i][k] = "own"
            /\ i - 1 <= r /\ r < i - 1 + cell.row_span
            /\ col <= c /\ c < col + cell.col_span }

\* C3: after setup_linked_rows succeeds, every grid position is covered by the
\* rectangle of exactly one owning cell; the rows [A, B(rowspan 2)],
\* [C(colspan 2)] are never linked with success.
C3_ExactlyOneOwner ==
    /\ LinkedOk =>
         \A r \in 0 .. frame.num_row - 1 : \A c \in 0 .. frame.num_col - 1 :
            Cardinality(Owners(r, c)) = 1
    /\ (JustLinked /\ rows = ScenarioOverlap) => last.exc # "none"

\* C4: get_num_of_columns() is the col_span sum of raw row 0, 0 without rows,
\* and no call changes it once row 0 exists.
C4_ColumnCountFixed ==
    [][ /\ (rows' = <<>> => get_num_of_columns(rows') = 0)
        /\ (rows' # <<>> => get_num_of_columns(rows') = ColSpanSum(rows'[1]))
        /\ (rows # <<>> => get_num_of_columns(rows') = get_num_of_columns(rows)) ]_vars

C4_Witness ==
    /\ Len(rows) >= 2
    /\ ~rows_linked.is_none
    /\ last.op = "read_tablecontent"
    /\ get_num_of_columns(rows) = 3
    /\ ColSpanSum(rows[2]) # ColSpanSum(rows[1])

\* C5: with get_num_of_columns() = 0, without rows or with an empty row 0,
\* setup_linked_rows raises nothing.
C5_NoColumnsIsNoOp ==
    (JustLinked /\ get_num_of_columns(rows) = 0) => last.exc = "none"

\* whether no cell of a row before row i (0-based) spans into row i
NothingSpansInto(i) ==
    \A r \in 0 .. i - 1 : \A k \in 1 .. Len(rows[r + 1]) :
        r + rows[r + 1][k].row_span <= i

\* C6: a row that reaches the end-of-row assertion with ind_col # num_col fails
\* there (AssertionError at line 397, nothing appended for it); a row whose
\* col_span sum is less than the column count, with nothing spanning into it
\* from above, makes setup_linked_rows fail.
C6_ColumnMismatch ==
    JustLinked =>
      /\ \A k \in 1 .. Len(frame.end_cols) :
            frame.end_cols[k] # frame.num_col =>
               /\ last.exc = "AssertionError" /\ frame.line = 397
               /\ frame.i = k - 1 /\ Len(linked) = k - 1
      /\ \A i \in 0 .. Len(rows) - 1 :
            (ColSpanSum(rows[i + 1]) < get_num_of_columns(rows) /\ NothingSpansInto(i))
               => last.exc # "none"

C6_Witness ==
    /\ JustLinked /\ last.exc = "AssertionError" /\ frame.line = 397
    /\ frame.i = 1 /\ Len(linked) = 1
    /\ frame.ind_col < frame.num_col
    /\ NothingSpansInto(1)

\* C7: every cell of rows and of rows_linked is either owning (data, no link)
\* or linked (link, no data); the raw cells are owning, the placeholders
\* setup_linked_rows creates are linked.
C7_OwningOrLinked ==
    /\ \A i \in 1 .. Len(rows) : \A k \in 1 .. Len(rows[i]) : Owning(rows[i][k])
    /\ \A i \in 1 .. Len(linked) : \A k \in 1 .. Len(linked[i]) :
          /\ Owning(linked[i][k]) # Linked(linked[i][k])
          /\ frame.kinds[i][k] = "linked" => Linked(linked[i][k])
          /\ frame.kinds[i][k] = "own" => Owning(linked[i][k])

C7_Witness ==
    /\ last.op = "read_tablecontent"
    /\ Len(rows) > Len(linked)
    /\ \E i \in 1 .. Len(linked) : \E k \in 1 .. Len(linked[i]) :
          frame.kinds[i][k] = "linked" /\ Linked(linked[i][k])

\* C8: only cells with row_span > 1 are registered in link_indices, and no
\* placeholder links to a cell whose row_span is 1.
C8_OnlyMultiRowTargets ==
    /\ \A n \in 1 .. Len(frame.link_indices) :
          CellAt(frame.link_indices[n]).row_span > 1
    /\ \A i \in 1 .. Len(linked) : \A k \in Placeholders(i) :
          CellAt(linked[i][k].linked_cell).row_span > 1

C8_Witness ==
    /\ LinkedOk
    /\ \E i \in 1 .. Len(linked) : Placeholders(i) # {}
    /\ \E i \in 1 .. Len(rows) : \E k \in 1 .. Len(rows[i]) :
          rows[i][k].row_span = 1 /\ rows[i][k].col_span = 1

SingleSpan(row) ==
    \A k \in 1 .. Len(row) : row[k].row_span = 1 /\ row[k].col_span = 1

\* C9: a linked row whose raw row has num_col cells, all of row_span 1 and
\* col_span 1, is the same sequence of owning cells.
C9_SingleSpanRoundTrip ==
    \A i \in 1 .. Len(linked) :
        (Len(rows[i]) = frame.num_col /\ SingleSpan(rows[i])) => linked[i] = rows[i]

C9_Witness ==
    /\ LinkedOk
    /\ \E i \in 1 .. Len(linked) :
          /\ Len(rows[i]) = 2 /\ frame.num_col = 2 /\ SingleSpan(rows[i])
          /\ rows[i][1].data # rows[i][2].data
          /\ linked[i] = rows[i]

\* C10: a setup_linked_rows call that follows a setup_linked_rows call leaves
\* rows_linked as the first call made it.
C10_LinkTwice ==
    [][ (last.op = "setup_linked_rows" /\ last'.op = "setup_linked_rows")
           => rows_linked' = rows_linked ]_vars

C10_Witness ==
    /\ last.op = "setup_linked_rows" /\ last.again /\ last.exc = "none"
    /\ Len(linked) >= 2
    /\ \E i \in 1 .. Len(linked) : Placeholders(i) # {}

\* a row that is one header cell spanning three columns and one row
IsTotalRow(row) ==
    /\ Len(row) = 1
    /\ row[1].type = HEADER /\ row[1].col_span = 3 /\ row[1].row_span = 1

\* C11: in a table of 3 columns a row that is a single header cell of
\* col_span 3, with nothing spanning into it from above, is not the row that
\* setup_linked_rows fails at; once linked, it is that one owning header cell,
\* placed at column 0 and covering the 3 columns.
C11_TotalRow ==
    JustLinked =>
      \A i \in 1 .. Len(rows) :
         (IsTotalRow(rows[i]) /\ frame.num_col = 3) =>
            /\ (NothingSpansInto(i - 1) /\ last.exc # "none") => frame.i # i - 1
            /\ Len(linked) >= i =>
                  /\ linked[i] = rows[i]
                  /\ Owning(linked[i][1]) /\ linked[i][1].type = HEADER
                  /\ frame.kinds[i] = <<"own">>
                  /\ frame.cols[i] = <<0>>
                  /\ frame.cols[i][1] + linked[i][1].col_span = frame.num_col

C11_Witness ==
    /\ LinkedOk /\ frame.num_col = 3
    /\ Len(rows) = 2 /\ Len(rows[1]) = 2
    /\ IsTotalRow(rows[2])
    /\ linked[2] = rows[2]

\* whether s begins with, ends with, sub
StartsWith(s, sub) == OccursAt(s, sub, 0)
EndsWith(s, sub) == OccursAt(s, sub, Len(s) - Len(sub))

ExtractDone == call.fn = "extract_raw_table" /\ ret.done

\* C12: _extract_raw_table raises when "<table" or "/table>" is missing, and
\* every result it returns begins with "<table" and ends with "/table>".
C12_ExtractTable ==
    ExtractDone =>
      /\ (find(call.arg, str_start) < 0 \/ find(call.arg, str_end) < 0)
            => ret.exc = "AssertionError"
      /\ ret.exc = "none" =>
            /\ StartsWith(ret.value, str_start)
            /\ EndsWith(ret.value, str_end)

\* C13: the cleaner is idempotent: cleaning its own output gives that output.
C13_CleanIdempotent ==
    (call.fn = "clean_table" /\ ret.done) => clean_table(ret.value) = ret.value

RowDone == call.fn = "htmlrow_to_rowobj" /\ ret.done

\* a span value that is a number >= 1
ValidSpan(value) ==
    /\ value # <<>>
    /\ \A k \in 1 .. Len(value) : value[k] \in Digits
    /\ int(value) >= 1

AllClosed(cells) == \A k \in 1 .. Len(cells) : cells[k].closed

\* C14: a cell written with rowspan="N" / colspan="N" gets the same span N as
\* one written with the canonical rowspan:N / colspan:N.
C14_BothTokenForms ==
    RowDone =>
        \A c \in CellSources :
            (c.form # "none" /\ ValidSpan(c.value) /\ call.arg = row_string(<<c>>)) =>
                /\ ret.exc = "none"
                /\ Len(ret.value) = 1
                /\ (c.name = "rowspan" => ret.value[1].row_span = int(c.value))
                /\ (c.name = "colspan" => ret.value[1].col_span = int(c.value))

\* C15: in a row of closed cells, cells without span attribute get row_span 1
\* and col_span 1, and a span attribute whose value is not a number >= 1 makes
\* the call fail.
C15_SpanDefaults ==
    RowDone =>
        \A cells \in RowSources :
            (call.arg = row_string(cells) /\ AllClosed(cells)) =>
                /\ (\A k \in 1 .. Len(cells) : cells[k].form = "none") =>
                       /\ ret.exc = "none"
                       /\ Len(ret.value) = Len(cells)
                       /\ \A k \in 1 .. Len(cells) :
                              ret.value[k].row_span = 1 /\ ret.value[k].col_span = 1
                /\ (\E k \in 1 .. Len(cells) :
                        cells[k].form # "none" /\ ~ValidSpan(cells[k].value)) =>
                       ret.exc # "none"

\* C16: a row with an opening <td or <th that is not closed makes the call fail.
C16_UnterminatedCell ==
    RowDone =>
        \A cells \in RowSources :
            (call.arg = row_string(cells) /\ ~AllClosed(cells)) => ret.exc # "none"

\* C17: whenever rows_linked is set, by a setup_linked_rows call that raised
\* nothing, it holds one linked row per raw row of the Table.
C17_OneLinkedRowPerRow ==
    (~rows_linked.is_none /\ frame.exc = "none") => Len(rows_linked.list) = get_num_of_rows(rows)

\* the latest _update_raw_quarterly_financial_statements call returned
UpdateDone == run.symbol # None /\ run.exc = "none"

Written(doc) == \E j \in 1 .. Len(run.writes) : run.writes[j].acc_num = doc.acc_num

\* C18: a document is downloaded and written if and only if it is interactive,
\* its date is not among the stored dates and is not before last_date; and no
\* statement file that exists for a date is written again.
C18_SkipsStoredFiles ==
    UpdateDone =>
        /\ \A k \in 1 .. Len(run.docs) :
               Written(run.docs[k]) <=>
                   /\ run.docs[k].is_interactive
                   /\ run.docs[k].date \notin run.stored_dates
                   /\ run.docs[k].date >= last_date
        /\ \A j \in 1 .. Len(run.writes) :
               /\ run.writes[j].date \notin run.stored_dates
               /\ \A h \in 1 .. j - 1 : run.writes[h].date # run.writes[j].date

\* C19: when a last updated symbol s is stored, the call updates no symbol
\* before s in the list, nor s itself.
C19_ResumeAfterLast ==
    run.last_symbol # None =>
        \A k \in 1 .. Len(run.updated) :
            index_of(run.updated[k]) > index_of(run.last_symbol)

\* the grid column where cell c of raw row r was put in its linked row
OwnColumn(r, c) ==
    LET kinds == frame.kinds[r + 1]
        k == CHOOSE k \in 1 .. Len(kinds) :
                 /\ kinds[k] = "own"
                 /\ Cardinality({ j \in 1 .. k : kinds[j] = "own" }) = c + 1
    IN  frame.cols[r + 1][k]

\* C20: every placeholder of linked row i links to an owning cell of the raw
\* rows, of an earlier row r, whose row_span reaches row i and whose leading
\* column is the placeholder's column, and it carries that cell's type,
\* row_span and col_span.
C20_PlaceholderOwner ==
    JustLinked =>
        \A i \in 1 .. Len(linked) : \A k \in Placeholders(i) :
            LET ref == linked[i][k].linked_cell
                r == ref[1]
                c == ref[2]
            IN  /\ r + 1 <= Len(rows) /\ c + 1 <= Len(rows[r + 1])
                /\ Owning(CellAt(ref))
                /\ r < i - 1
                /\ CellAt(ref).row_span > (i - 1) - r
                /\ OwnColumn(r, c) = frame.cols[i][k]
                /\ linked[i][k].type = CellAt(ref).type
                /\ linked[i][k].row_span = CellAt(ref).row_span
                /\ linked[i][k].col_span = CellAt(ref).col_span

\* a placeholder two rows below the cell it links to
C20_Witness ==
    /\ LinkedOk
    /\ \E i \in 1 .. Len(linked) : \E k \in Placeholders(i) :
           /\ (i - 1) - linked[i][k].linked_cell[1] = 2
           /\ CellAt(linked[i][k].linked_cell).row_span = 3

\* C21: setup_linked_rows, whether it returns or raises, leaves the raw rows
\* as they were: the same rows and cells, each with its type, spans, data and
\* no link.
C21_RawRowsUnchanged == [][LinkRows => rows' = rows]_vars

\* rows linked with a placeholder, whose raw cells all own their data
C21_Witness ==
    /\ JustLinked
    /\ \E i \in 1 .. Len(linked) : Placeholders(i) # {}
    /\ \A r \in 1 .. Len(rows) : \A c \in 1 .. Len(rows[r]) : Owning(rows[r][c])

\* the row where the latest setup_linked_rows call raised
FailedRow == rows[frame.i + 1]

\* the columns of row i that no cell of an earlier row covers
ColumnsLeft(i) ==
    Cardinality({ c \in 0 .. frame.num_col - 1 : frame.multi_row_struct[i][c] = -1 })

\* the latest setup_linked_rows call raised at a row whose own cells ask for
\* more columns than are left for it, and whose cells all end at or before
\* the last row
Overrun ==
    /\ JustLinked /\ last.exc # "none"
    /\ frame.i < frame.num_row /\ frame.num_col > 0
    /\ ColSpanSum(FailedRow) > ColumnsLeft(frame.i)
    /\ \A k \in 1 .. Len(FailedRow) : frame.i + FailedRow[k].row_span <= frame.num_row

\* C22: a row whose own cells overrun the column count fails with the
\* AssertionError of line 397, as a row that is too short does.
C22_OverrunIsMismatch == Overrun => (last.exc = "AssertionError" /\ frame.line = 397)

\* C23: read_tablecontent gives one row for every <tr>...</tr> span of the
\* table content, in order, also when a cell's text holds a line break.
C23_OneRowPerSpan ==
    (call.fn = "read_tablecontent" /\ ret.done) =>
        \A table \in TableSources :
            call.arg = table_string(table) =>
                /\ ret.exc = "none"
                /\ get_num_of_rows(ret.value) = Len(table)
                /\ \A k \in 1 .. Len(table) : Len(ret.value[k]) = Len(table[k])

\* the text from its first to its last character that is no whitespace
Trimmed(text) ==
    LET ks == { k \in 1 .. Len(text) : text[k] \notin {" ", "\n", "\t"} }
    IN  IF ks = {} THEN <<>>
        ELSE SubSeq(text, CHOOSE k \in ks : \A j \in ks : k <= j,
                          CHOOSE k \in ks : \A j \in ks : k >= j)

\* C24: when _htmlrow_to_rowobj returns for a row of closed cells, it gives
\* one owning cell per cell of the row, in order, HEADER for <th> and NORMAL
\* for <td>, whose data is the text after the first ">" without the
\* whitespace around it.
C24_OneCellPerSpan ==
    (RowDone /\ ret.exc = "none") =>
        \A cells \in RowSources :
            (call.arg = row_string(cells) /\ AllClosed(cells)) =>
                /\ Len(ret.value) = Len(cells)
                /\ \A k \in 1 .. Len(cells) :
                       /\ Owning(ret.value[k])
                       /\ ret.value[k].type = (IF cells[k].tag = "th" THEN HEADER ELSE NORMAL)
                       /\ ret.value[k].data = Trimmed(cells[k].text)

\* a row of a <th> and a <td> whose text has whitespace around it was parsed
C24_Witness ==
    /\ RowDone /\ ret.exc = "none"
    /\ call.arg = row_string(<<CellSource("th", "none", "", <<>>, <<"H">>, TRUE),
                               CellSource("td", "none", "", <<>>, <<" ", "A", " ">>, TRUE)>>)
    /\ Len(ret.value) = 2
    /\ ret.value[1].type = HEADER /\ ret.value[2].type = NORMAL
    /\ ret.value[2].data = <<"A">>

RECURSIVE Power(_, _)
Power(b, n) == IF n = 0 THEN 1 ELSE b * Power(b, n - 1)

\* what _open_url_with_retry keeps at every point of a call
RetryBounded ==
    /\ retry.gets <= retry.num_retry + 1
    /\ retry.pc = "returned" => retry.gets = retry.n_tries + 1
    /\ retry.pc = "get" => retry.gets = retry.n_tries
    /\ retry.pc = "raised" => retry.gets = retry.n_tries
    /\ (retry.pc = "raised") <=> (retry.n_tries = retry.num_retry + 1)
    /\ retry.timeout = retry.timeout0 * Power(retry.timeout_grow_factor, retry.n_tries)
    /\ retry.page_load_timeout = retry.timeout

\* C25: _open_url_with_retry returns at the first page load that succeeds,
\* loads at most num_retry + 1 times, raises PageLoadError exactly when
\* num_retry + 1 loads timed out, multiplies the timeout by
\* timeout_grow_factor at every timed out load, and always ends.
C25_RetryEnds ==
    /\ []RetryBounded
    /\ (retry.pc = "get") ~> (retry.pc \in {"returned", "raised"})

\* a call given the defaults raised PageLoadError after 4 loads, with timeout 160
C25_Witness ==
    /\ retry.pc = "raised" /\ retry.num_retry = 3 /\ retry.timeout0 = 10
    /\ retry.timeout_grow_factor = 2
    /\ retry.gets = 4 /\ retry.page_load_timeout = 160

\* C26: the owning cells of every linked row are the cells of its raw row, in
\* the same order.
C26_OwnCellsKept ==
    JustLinked =>
        \A i \in 1 .. Len(linked) : SelectSeq(linked[i], Owning) = rows[i]

\* a linked row that holds a placeholder and a cell of its own
C26_Witness ==
    /\ LinkedOk
    /\ \E i \in 1 .. Len(linked) :
           /\ Placeholders(i) # {}
           /\ Len(rows[i]) >= 1
           /\ Len(linked[i]) = Len(rows[i]) + 1

\* the latest setup_linked_rows call stopped at a row whose own cells fit the
\* columns left for it, one of them with a row_span that reaches past the
\* last row
SpanPastLastRow ==
    /\ JustLinked
    /\ frame.i < frame.num_row /\ frame.num_col > 0
    /\ ColSpanSum(FailedRow) <= ColumnsLeft(frame.i)
    /\ \E k \in 1 .. Len(FailedRow) : frame.i + FailedRow[k].row_span > frame.num_row

\* C27: a cell whose row_span reaches past the last row causes no access
\* outside the matrix.
C27_NoOutOfRange == SpanPastLastRow => last.exc # "IndexError"

\* C28: a setup_linked_rows call that raises leaves rows_linked as it was
\* before the call, and a read_tablecontent call that raises leaves rows as
\* they were.
C28_AllOrNothing ==
    [][last'.exc # "none" =>
          /\ last'.op = "setup_linked_rows" => rows_linked' = rows_linked
          /\ last'.op = "read_tablecontent" => rows' = rows]_vars

\* a pass of the loop of update_raw_quarterly_financial_statements that gave
\* a symbol to _update_raw_quarterly_financial_statements
UpdatePass == run'.i = run.i + 1 /\ Len(run'.updated) = Len(run.updated) + 1

\* C29: the last updated symbol is written only by a pass that updated a
\* symbol that is no ETF without error, and is then that symbol; a pass whose
\* update raised SymbolNotFoundError or PageLoadError leaves it as it was and
\* the loop goes on with the next symbol.
C29_MarkerAfterSuccess ==
    [][/\ disk'.last_updated # disk.last_updated =>
              /\ UpdatePass /\ run'.exc = "none"
              /\ ~ETF[run'.symbol]
              /\ run'.symbol = symbols[run'.i + 1]
              /\ disk'.last_updated = run'.symbol
       /\ (UpdatePass /\ run'.exc = "none") => disk'.last_updated = run'.symbol
       /\ (UpdatePass /\ run'.exc \in {"SymbolNotFoundError", "PageLoadError"}) =>
              /\ disk'.last_updated = disk.last_updated
              /\ (run'.i + 1 < Len(symbols) => run'.pc = "loop")]_vars

\* the update of the first symbol raised, and the last symbol was updated
\* after it and noted
C29_Witness ==
    /\ run.pc = "idle" /\ run.n = 1
    /\ run.updated = <<"AAA", "CCC">>
    /\ run.symbol = "CCC" /\ run.exc = "none"
    /\ disk.last_updated = "CCC"
    /\ "AAA" \notin disk.info

\* C30: when the last symbol of the list has been updated without error, the
\* last updated symbol is set to the first symbol of the list.
C30_MarkerReset ==
    (/\ run.pc = "idle" /\ run.n > 0
     /\ run.symbol = symbols[Len(symbols)] /\ run.exc = "none") =>
        disk.last_updated = symbols[1]

====
